---- MODULE Spec2Model ----
(***************************************************************************)
(* The enrichment store (database package), the directory (MockData) and   *)
(* the background worker: scheduler loop, one orchestrator per promoted    *)
(* enrichment (processEnrichmentThroughProviders) and one job runner per   *)
(* requested job type (processJobForEnrichment).                           *)
(*                                                                         *)
(* Every SQL statement is one atomic step (the in-memory database has one  *)
(* connection); a Go function that issues several statements is several    *)
(* steps, and the goroutines interleave between them.                      *)
(***************************************************************************)
EXTENDS Naturals, Integers, Sequences, FiniteSets, TLC

\* ------------------------------------------------------------------ bounds
\* At most this many providers are configured in the directory.
MaxProviders == 2
\* The clock stops advancing here (in clock ticks, TicksPerSecond per second).
MaxTime == 22
\* Clients post to /enrichment/start up to this time only.
MaxStartTime == 1

\* --------------------------------------------------------------- constants
\* Resolution of the model clock; time.RFC3339 keeps whole seconds only.
TicksPerSecond == 2
\* SQL NULL / Go nil in a provider column.
NULL == 0
\* worker.DefaultConfig
PollInterval == 10 * TicksPerSecond
PendingToInProgressDelay == 10 * TicksPerSecond

\* Success rates in percent: DefaultConfig's ProviderSuccessRate, and the
\* rate of a run whose contact info matches the third-party data.
ProviderSuccessRate == 20
BoostedSuccessRate == 80

Jobs == {"phone", "email"}
JobOrder == <<"phone", "email">>
EnrichmentStatusPending == "pending"
EnrichmentStatusInProgress == "in_progress"
EnrichmentStatusCompleted == "completed"
EnrichmentStatusFailed == "failed"

\* The seeded records and the ids uuid.New() can hand out.
StaticIds == {"static_pending", "static_in_progress", "static_completed", "static_failed"}
DynamicIds == {"d1"}
\* A second id of uuid.New(), for the runs with two enrichments in flight.
SecondIds == {"d2"}
EnrichmentIds == StaticIds \cup DynamicIds \cup SecondIds

\* The one contact of the directory, and a user id the directory does not know.
ContactIds == {"c1"}
UserIds == ContactIds \cup {"ghost"}
\* Values a provider can discover.
PhoneValue == "+1-555-0100"
EmailValue == "c1@example.com"

\* Strings of contact info and third-party data, and the length of their lists.
Strings == {"go", "Go", "sql"}
MaxListLen == 3
ScalarFields == {"LinkedInURL", "TwitterHandle", "GitHubUsername", "Bio", "Location"}

\* Job lists a client can post to /enrichment/start.
RequestJobs ==
    { <<>>, <<"phone">>, <<"email">>, <<"phone", "email">>, <<"email", "phone">>,
      <<"fax">>, <<"fax", "email">> }

VARIABLES
    now,        \* the wall clock, in ticks
    db,         \* the enrichments table: id -> row
    mockData,   \* the directory: Contacts, EnrichmentData, Providers
    sched,      \* the scheduler goroutine (Worker.run)
    orch,       \* per enrichment: its processEnrichmentThroughProviders goroutine
    runner      \* per enrichment and job type: its processJobForEnrichment goroutine

vars == <<now, db, mockData, sched, orch, runner>>

\* ----------------------------------------------------------------- helpers
Contains(seq, x) == \E i \in DOMAIN seq : seq[i] = x
Range(seq) == { seq[i] : i \in DOMAIN seq }
SelectJobs(seq) == SelectSeq(seq, LAMBDA j : j \in Jobs)
Orders(S) ==
    { p \in [1..Cardinality(S) -> S] : \A i, k \in 1..Cardinality(S) : p[i] = p[k] => i = k }

\* time.Now().UTC().Format(time.RFC3339): the fraction of the second is dropped
Format(t) == t \div TicksPerSecond

\* strings.ToLower
ToLower(s) ==
    CASE s = "Go" -> "go"
      [] s = "John Doe" -> "john doe"
      [] OTHER -> s

\* ------------------------------------------------------- the result column
\* The result column holds NULL or a JSON object; keys are the members present.
NullResult == [valid |-> FALSE, keys |-> {}, phone |-> "", email |-> ""]
EmptyObject == [valid |-> TRUE, keys |-> {}, phone |-> "", email |-> ""]
NilResult == [isNil |-> TRUE, phone |-> "", email |-> ""]

\* json.Unmarshal into models.EnrichmentResult: a missing member leaves ""
Unmarshal(col) ==
    [isNil |-> FALSE,
     phone |-> IF "phone" \in col.keys THEN col.phone ELSE "",
     email |-> IF "email" \in col.keys THEN col.email ELSE ""]

\* json.Marshal of models.EnrichmentResult: omitempty drops an empty member
Marshal(res) ==
    [valid |-> TRUE,
     keys  |-> { j \in Jobs : res[j] # "" },
     phone |-> res.phone,
     email |-> res.email]

\* What a reader sees for one job type: the value, "" when empty or absent.
ResultValue(row, j) == IF row.result.valid /\ j \in row.result.keys THEN row.result[j] ELSE ""
HasResult(row, j) == row.result.valid /\ j \in row.result.keys

\* ------------------------------------------------------------------- store
\* models.EnrichmentContactInfo; isNil is the nil pointer of a row without one
NoContactInfo ==
    [isNil |-> TRUE, LinkedInURL |-> "", TwitterHandle |-> "", GitHubUsername |-> "",
     Bio |-> "", Location |-> "", Skills |-> <<>>, Companies |-> <<>>]

\* A row has the columns of the enrichments table and, as a history field that
\* no operation reads, clock: the instant time.Now() returned when the row was
\* inserted, of which created_at keeps the whole seconds.
NoRow ==
    [exists |-> FALSE, user_id |-> "", status |-> EnrichmentStatusPending,
     created_at |-> 0, result |-> NullResult, current_provider_id |-> NULL,
     phone_provider_id |-> NULL, email_provider_id |-> NULL,
     jobs |-> <<>>, completed_jobs |-> <<>>, is_static |-> FALSE, clock |-> 0,
     contact_info |-> NoContactInfo]

\* CreateEnrichment without its default of ["phone"]
CreateEnrichmentWithoutDefault(userID, jobs, t) ==
    [exists |-> TRUE, user_id |-> userID, status |-> EnrichmentStatusPending,
     created_at |-> Format(t), result |-> NullResult, current_provider_id |-> NULL,
     phone_provider_id |-> NULL, email_provider_id |-> NULL,
     jobs |-> jobs, completed_jobs |-> <<>>, is_static |-> FALSE, clock |-> t,
     contact_info |-> NoContactInfo]

\* CreateEnrichment: status pending, no result, no provider, completed_jobs "[]"
CreateEnrichment(userID, jobs, t) ==
    [exists |-> TRUE, user_id |-> userID, status |-> EnrichmentStatusPending,
     created_at |-> Format(t), result |-> NullResult, current_provider_id |-> NULL,
     phone_provider_id |-> NULL, email_provider_id |-> NULL,
     jobs |-> IF Len(jobs) = 0 THEN <<"phone">> ELSE jobs,
     completed_jobs |-> <<>>, is_static |-> FALSE, clock |-> t,
     contact_info |-> NoContactInfo]

\* SeedStaticEnrichments: four rows, jobs ["phone"], is_static = 1
SeedRow(status, result) ==
    [exists |-> TRUE, user_id |-> "c1", status |-> status,
     created_at |-> 0, result |-> result, current_provider_id |-> NULL,
     phone_provider_id |-> NULL, email_provider_id |-> NULL,
     jobs |-> <<"phone">>, completed_jobs |-> <<>>, is_static |-> TRUE, clock |-> 0,
     contact_info |-> NoContactInfo]

SeedStaticEnrichments ==
    [id \in EnrichmentIds |->
        CASE id = "static_pending"     -> SeedRow(EnrichmentStatusPending, NullResult)
          [] id = "static_in_progress" -> SeedRow(EnrichmentStatusInProgress, NullResult)
          [] id = "static_completed"   -> SeedRow(EnrichmentStatusCompleted, EmptyObject)
          [] id = "static_failed"      -> SeedRow(EnrichmentStatusFailed, NullResult)
          [] OTHER                     -> NoRow]

\* GetEnrichment: one SELECT; Result is nil when the column is NULL
GetEnrichment(row) ==
    [Status |-> row.status,
     Result |-> IF row.result.valid THEN Unmarshal(row.result) ELSE NilResult]

\* GetEnrichmentJobs: one SELECT of jobs and completed_jobs
GetEnrichmentJobs(row) == [jobs |-> row.jobs, completedJobs |-> row.completed_jobs]

\* GetPendingEnrichments without the is_static = 0 condition
GetPendingEnrichmentsWithStatic(table, olderThan, t) ==
    { id \in EnrichmentIds :
        /\ table[id].exists
        /\ table[id].status = EnrichmentStatusPending
        /\ table[id].created_at < Format(t - olderThan) }

\* GetPendingEnrichments without the status = 'pending' condition
GetPendingEnrichmentsAnyStatus(table, olderThan, t) ==
    { id \in EnrichmentIds :
        /\ table[id].exists
        /\ ~table[id].is_static
        /\ table[id].created_at < Format(t - olderThan) }

\* GetPendingEnrichments: pending, not static, created_at < cutoff, the cutoff
\* being time.Now().Add(-olderThan) in RFC3339
GetPendingEnrichments(table, olderThan, t) ==
    { id \in EnrichmentIds :
        /\ table[id].exists
        /\ table[id].status = EnrichmentStatusPending
        /\ ~table[id].is_static
        /\ table[id].created_at < Format(t - olderThan) }

\* UpdateEnrichmentStatusWithJobProvider: one UPDATE; status and result are
\* always written, the result as NULL when the argument is nil
UpdateEnrichmentStatusWithJobProvider(row, status, result, providerID, jobType) ==
    IF jobType = "phone" THEN
        [row EXCEPT !.status = status, !.result = result,
                    !.phone_provider_id = providerID]
    ELSE IF jobType = "email" THEN
        [row EXCEPT !.status = status, !.result = result,
                    !.email_provider_id = providerID]
    ELSE IF status = EnrichmentStatusCompleted THEN
        [row EXCEPT !.status = status, !.result = result,
                    !.current_provider_id = NULL,
                    !.phone_provider_id = NULL, !.email_provider_id = NULL]
    ELSE
        [row EXCEPT !.status = status, !.result = result,
                    !.current_provider_id = providerID]

UpdateEnrichmentStatusWithProvider(row, status, result, providerID) ==
    UpdateEnrichmentStatusWithJobProvider(row, status, result, providerID, "")

\* UpdateEnrichmentStatus whose UPDATE leaves the status column out
UpdateEnrichmentStatusKeepingStatus(row, status, result) == [row EXCEPT !.result = result]

UpdateEnrichmentStatus(row, status, result) ==
    UpdateEnrichmentStatusWithProvider(row, status, result, NULL)

\* UpdateEnrichmentResultField: sets the one member of the result object
UpdateEnrichmentResultField(row, jobType, value) ==
    [row EXCEPT !.result =
        [valid |-> TRUE,
         keys  |-> row.result.keys \cup {jobType},
         phone |-> IF jobType = "phone" THEN value ELSE row.result.phone,
         email |-> IF jobType = "email" THEN value ELSE row.result.email]]

\* AddCompletedJob without its already-completed test
AddCompletedJobReadUnchecked(row, job) ==
    LET got == GetEnrichmentJobs(row)
        completedJobs == Append(got.completedJobs, job)
    IN  [already       |-> FALSE,
         completedJobs |-> completedJobs,
         allCompleted  |-> \A i \in DOMAIN got.jobs : Contains(completedJobs, got.jobs[i])]

\* AddCompletedJob, first statement and the computation on its answer
\* (GetEnrichmentJobs, the already-completed test, append, allCompleted)
AddCompletedJobRead(row, job) ==
    LET got == GetEnrichmentJobs(row)
        completedJobs == Append(got.completedJobs, job)
    IN  [already       |-> Contains(got.completedJobs, job),
         completedJobs |-> completedJobs,
         allCompleted  |-> \A i \in DOMAIN got.jobs : Contains(completedJobs, got.jobs[i])]

\* AddCompletedJob, allCompleted branch: GetEnrichment and re-marshal the result
AddCompletedJobResult(row) ==
    LET enrichment == GetEnrichment(row)
    IN  IF enrichment.Result.isNil THEN NullResult ELSE Marshal(enrichment.Result)

\* AddCompletedJob whose UPDATE never takes the allCompleted branch
AddCompletedJobUpdateKeepingStatus(row, completedJobs, allCompleted, resultJSON) ==
    [row EXCEPT !.completed_jobs = completedJobs]

\* AddCompletedJob, the UPDATE
AddCompletedJobUpdate(row, completedJobs, allCompleted, resultJSON) ==
    IF allCompleted THEN
        [row EXCEPT !.status = EnrichmentStatusCompleted,
                    !.completed_jobs = completedJobs,
                    !.current_provider_id = NULL,
                    !.phone_provider_id = NULL, !.email_provider_id = NULL,
                    !.result = resultJSON]
    ELSE
        [row EXCEPT !.completed_jobs = completedJobs]

\* GetEnrichmentContactInfo: the contact info stored with the row, nil if none
GetEnrichmentContactInfo(row) == row.contact_info

\* --------------------------------------------------------------- directory
\* contact.FirstName + " " + contact.LastName
FullName(md, contactID) == "John Doe"

\* MockData.GetThirdPartyInfo: looked up under the lower-cased full name
GetThirdPartyInfo(md, fullName) ==
    IF ToLower(fullName) \in DOMAIN md.ThirdParty
    THEN [info |-> md.ThirdParty[ToLower(fullName)], exists |-> TRUE]
    ELSE [info |-> NoContactInfo, exists |-> FALSE]

\* GetContact that finds a contact under every id
GetContactFindingAll(md, id) == TRUE

\* MockData.GetContact
GetContact(md, id) == id \in DOMAIN md.Contacts

\* GetAllProviders that falls back to one provider when none is configured
GetAllProvidersWithFallback(md) == Orders(IF md.Providers = {} THEN {1} ELSE md.Providers)

\* MockData.GetAllProviders ranges over a Go map: any order
GetAllProviders(md) == Orders(md.Providers)

\* MockData.GetEnrichmentData: ("", "", false) for a contact without data
GetEnrichmentData(md, contactID) ==
    IF contactID \in DOMAIN md.EnrichmentData
    THEN [phone |-> md.EnrichmentData[contactID].phone,
          email |-> md.EnrichmentData[contactID].email, exists |-> TRUE]
    ELSE [phone |-> "", email |-> "", exists |-> FALSE]

\* an update that leaves the contact record as it is
UpdateContactNothing(md, contactID, jobType, value) == md

\* MockData.UpdateContactPhone / UpdateContactEmail
UpdateContact(md, contactID, jobType, value) ==
    IF contactID \in DOMAIN md.Contacts
    THEN [md EXCEPT !.Contacts[contactID][jobType] = value]
    ELSE md

\* ---------------------------------------------------------- initial state
IdleOrch ==
    [pc |-> "idle", jobs |-> <<>>, providers |-> <<>>, completedJobs |-> <<>>,
     k |-> 0, acj |-> <<>>, resultJSON |-> NullResult, successRate |-> 0]
\* added records how the runner's AddCompletedJob call ended: "none" (not
\* called), "already", "added" (UPDATE of completed_jobs alone) or "completed"
\* (UPDATE that also set the status).  queried records the providers the
\* runner has drawn for, in the order of the draws, and faulted that the runner
\* returned on a failed store read.  No operation reads any of the three.
IdleRunner ==
    [pc |-> "idle", i |-> 0, status |-> "", value |-> "",
     acj |-> <<>>, resultJSON |-> NullResult, added |-> "none", successRate |-> 0,
     queried |-> <<>>, faulted |-> FALSE]

\* The third-party data of the contact.
JohnDoe ==
    [isNil |-> FALSE, LinkedInURL |-> "go", TwitterHandle |-> "go", GitHubUsername |-> "go",
     Bio |-> "go", Location |-> "go", Skills |-> <<"Go", "sql">>, Companies |-> <<"go">>]

\* The ground-truth data the directory may hold for the contact.
EnrichmentDataChoices ==
    { <<>> } \cup
    { [c \in ContactIds |-> [phone |-> p, email |-> m]] :
        p \in {"", PhoneValue}, m \in {"", EmailValue} }

\* main(): database.New, SeedStaticEnrichments, NewMockData, worker.New, Start
Init ==
    /\ now = 0
    /\ db = SeedStaticEnrichments
    /\ \E n \in 0..MaxProviders, data \in EnrichmentDataChoices :
         mockData = [Contacts       |-> [c \in ContactIds |-> [phone |-> "", email |-> ""]],
                     EnrichmentData |-> data,
                     Providers      |-> 1..n,
                     ThirdParty     |-> [name \in {"john doe"} |-> JohnDoe]]
    /\ sched = [pc |-> "start", todo |-> {}, nextTick |-> 0, stop |-> FALSE]
    /\ orch = [e \in EnrichmentIds |-> IdleOrch]
    /\ runner = [e \in EnrichmentIds |-> [j \in Jobs |-> IdleRunner]]

\* ------------------------------------------------------------------- clock
Tick ==
    /\ now < MaxTime
    /\ now' = now + 1
    /\ UNCHANGED <<db, mockData, sched, orch, runner>>

\* ----------------------------------------------------------- HTTP handler
\* Handler.StartEnrichment: keeps the valid jobs, rejects a non-empty request
\* without a valid one, then CreateEnrichment under a fresh uuid
StartEnrichment(userID, jobs) ==
    /\ now <= MaxStartTime
    /\ Len(jobs) > 0 => Len(SelectJobs(jobs)) > 0
    /\ \E id \in DynamicIds :
         /\ ~db[id].exists
         /\ db' = [db EXCEPT ![id] = CreateEnrichment(userID, SelectJobs(jobs), now)]
    /\ UNCHANGED <<now, mockData, sched, orch, runner>>

\* --------------------------------------------------------------- scheduler
\* A tick due after the clock has stopped never fires: all such are one value.
CapTick(t) == IF t > MaxTime THEN MaxTime + 1 ELSE t

\* time.NewTicker: the tick after the one consumed at time t
NextTickAfter(first, t) ==
    IF t < first THEN first
    ELSE CapTick(first + PollInterval * (((t - first) \div PollInterval) + 1))

\* processPendingEnrichments, the query: the due rows become the loop's range
ProcessPendingQuery(s, t) ==
    LET due == GetPendingEnrichments(db, PendingToInProgressDelay, t)
    IN  [s EXCEPT !.pc = IF due = {} THEN "idle" ELSE "promoting", !.todo = due]

\* Worker.run: "Run immediately on start", with the ticker armed just before
SchedulerStart ==
    /\ sched.pc = "start"
    /\ sched' = [ProcessPendingQuery(sched, now) EXCEPT !.nextTick = CapTick(now + PollInterval)]
    /\ UNCHANGED <<now, db, mockData, orch, runner>>

\* Worker.run, case <-ticker.C
SchedulerTick ==
    /\ sched.pc = "idle"
    /\ now >= sched.nextTick
    /\ sched' = [ProcessPendingQuery(sched, now) EXCEPT
                    !.nextTick = NextTickAfter(sched.nextTick, now)]
    /\ UNCHANGED <<now, db, mockData, orch, runner>>

\* a loop that starts the next orchestrator when the earlier ones have ended
PromoteAfterOrchestrators(e) ==
    /\ sched.pc = "promoting"
    /\ e \in sched.todo
    /\ \A f \in EnrichmentIds : orch[f].pc \in {"idle", "done"}
    /\ db' = [db EXCEPT ![e] = UpdateEnrichmentStatus(db[e], EnrichmentStatusInProgress, NullResult)]
    /\ orch' = [orch EXCEPT ![e].pc = "start"]
    /\ sched' = [sched EXCEPT !.todo = sched.todo \ {e},
                              !.pc = IF sched.todo = {e} THEN "idle" ELSE "promoting"]
    /\ UNCHANGED <<now, mockData, runner>>

\* processPendingEnrichments, one iteration of the loop: the status write and
\* the go statement that follows it
Promote(e) ==
    /\ sched.pc = "promoting"
    /\ e \in sched.todo
    /\ db' = [db EXCEPT ![e] = UpdateEnrichmentStatus(db[e], EnrichmentStatusInProgress, NullResult)]
    /\ orch' = [orch EXCEPT ![e].pc = "start"]
    /\ sched' = [sched EXCEPT !.todo = sched.todo \ {e},
                              !.pc = IF sched.todo = {e} THEN "idle" ELSE "promoting"]
    /\ UNCHANGED <<now, mockData, runner>>

\* Worker.Stop: close(stopCh)
Stop ==
    /\ ~sched.stop
    /\ sched.pc # "start"
    /\ sched' = [sched EXCEPT !.stop = TRUE]
    /\ UNCHANGED <<now, db, mockData, orch, runner>>

\* a run loop whose select has no stopCh case
SchedulerExitMissing == FALSE /\ UNCHANGED vars

\* Worker.run, case <-w.stopCh
SchedulerExit ==
    /\ sched.pc = "idle"
    /\ sched.stop
    /\ sched' = [sched EXCEPT !.pc = "stopped"]
    /\ UNCHANGED <<now, db, mockData, orch, runner>>

\* ------------------------------------------------------------ orchestrator
\* stringSlicesEqual's mapA / mapB: how often each lower-cased string occurs
CountMap(a) ==
    [k \in { ToLower(a[i]) : i \in DOMAIN a } |->
        Cardinality({ i \in DOMAIN a : ToLower(a[i]) = k })]

\* stringSlicesEqual that counts the strings as they are written
stringSlicesEqualWithoutToLower(a, b) ==
    LET Count(x, k) == Cardinality({ i \in DOMAIN x : x[i] = k })
    IN  /\ Len(a) = Len(b)
        /\ Cardinality(Range(a)) = Cardinality(Range(b))
        /\ \A k \in Range(a) : Count(b, k) = Count(a, k)

\* stringSlicesEqual: the lengths, the sizes of the two maps, then each count
\* of mapA against mapB, where a missing key reads 0
stringSlicesEqual(a, b) ==
    LET mapA == CountMap(a)
        mapB == CountMap(b)
    IN  IF Len(a) # Len(b) THEN FALSE
        ELSE IF Cardinality(DOMAIN mapA) # Cardinality(DOMAIN mapB) THEN FALSE
        ELSE \A k \in DOMAIN mapA : (IF k \in DOMAIN mapB THEN mapB[k] ELSE 0) = mapA[k]

\* contactInfoMatches: each non-empty scalar field compared with !=, each
\* non-empty list with stringSlicesEqual
contactInfoMatches(contactInfo, thirdPartyInfo) ==
    /\ \A f \in ScalarFields :
            ~(contactInfo[f] # "" /\ contactInfo[f] # thirdPartyInfo[f])
    /\ Len(contactInfo.Skills) > 0
            => stringSlicesEqual(contactInfo.Skills, thirdPartyInfo.Skills)
    /\ Len(contactInfo.Companies) > 0
            => stringSlicesEqual(contactInfo.Companies, thirdPartyInfo.Companies)

\* a rate that is boosted for every supplied contact info
SuccessRateOfAnyContactInfo(row, md) ==
    IF ~GetEnrichmentContactInfo(row).isNil THEN BoostedSuccessRate ELSE ProviderSuccessRate

\* successRate: the configured rate, or the boosted one when the row has
\* contact info, the contact has third-party data and the two match
SuccessRate(row, md) ==
    LET contactInfo == GetEnrichmentContactInfo(row)
        thirdParty == GetThirdPartyInfo(md, FullName(md, row.user_id))
    IN  IF /\ ~contactInfo.isNil
           /\ thirdParty.exists
           /\ contactInfoMatches(contactInfo, thirdParty.info)
        THEN BoostedSuccessRate
        ELSE ProviderSuccessRate

\* OrchGetContact without the return after the failed status is written
OrchGetContactWithoutReturn(e) ==
    /\ orch[e].pc = "start"
    /\ IF GetContact(mockData, db[e].user_id)
       THEN UNCHANGED db
       ELSE db' = [db EXCEPT ![e] = UpdateEnrichmentStatus(db[e], EnrichmentStatusFailed, NullResult)]
    /\ orch' = [orch EXCEPT ![e].pc = "get_jobs"]
    /\ UNCHANGED <<now, mockData, sched, runner>>

\* processEnrichmentThroughProviders: GetContact; an unknown user fails the run
OrchGetContact(e) ==
    /\ orch[e].pc = "start"
    /\ IF GetContact(mockData, db[e].user_id)
       THEN /\ orch' = [orch EXCEPT ![e].pc = "get_jobs"]
            /\ UNCHANGED db
       ELSE /\ db' = [db EXCEPT ![e] = UpdateEnrichmentStatus(db[e], EnrichmentStatusFailed, NullResult)]
            /\ orch' = [orch EXCEPT ![e].pc = "done"]
    /\ UNCHANGED <<now, mockData, sched, runner>>

\* GetEnrichmentJobs: the requested jobs, from which needsPhone and needsEmail
OrchGetJobs(e) ==
    /\ orch[e].pc = "get_jobs"
    /\ orch' = [orch EXCEPT ![e].pc = "get_providers",
                            ![e].jobs = GetEnrichmentJobs(db[e]).jobs]
    /\ UNCHANGED <<now, db, mockData, sched, runner>>

\* GetAllProviders; an empty list fails the run. Then the contact info of the
\* row, which no statement changes after the insert, and the success rate.
OrchGetProviders(e) ==
    /\ orch[e].pc = "get_providers"
    /\ \E providers \in GetAllProviders(mockData) :
         IF Len(providers) = 0
         THEN /\ db' = [db EXCEPT ![e] = UpdateEnrichmentStatus(db[e], EnrichmentStatusFailed, NullResult)]
              /\ orch' = [orch EXCEPT ![e].pc = "done"]
         ELSE /\ orch' = [orch EXCEPT ![e].pc = "spawn", ![e].providers = providers,
                                      ![e].successRate = SuccessRate(db[e], mockData)]
              /\ UNCHANGED db
    /\ UNCHANGED <<now, mockData, sched, runner>>

\* both job types taken as needed, whatever was requested
NeedsEveryJob(o, j) == TRUE

\* needsPhone / needsEmail
Needs(o, j) == Contains(o.jobs, j)

\* the go statements: one job runner per needed job type, under the WaitGroup
OrchSpawn(e) ==
    /\ orch[e].pc = "spawn"
    /\ runner' = [runner EXCEPT ![e] =
                    [j \in Jobs |-> IF Needs(orch[e], j)
                                    THEN [IdleRunner EXCEPT !.pc = "loop", !.i = 1,
                                            !.successRate = orch[e].successRate]
                                    ELSE IdleRunner]]
    /\ orch' = [orch EXCEPT ![e].pc = "wait"]
    /\ UNCHANGED <<now, db, mockData, sched>>

\* a final check that finds nothing left to close
NextToCloseNothing(o, completedJobs, k) == 3

\* The closure visits phone, then email: the next job type at or after
\* position k that was requested and is missing from the completedJobs read
\* after the wait, or 3 when there is none.
NextToClose(o, completedJobs, k) ==
    LET open == { n \in k..2 : Needs(o, JobOrder[n]) /\ ~Contains(completedJobs, JobOrder[n]) }
    IN  IF open = {} THEN 3 ELSE CHOOSE n \in open : \A m \in open : n <= m

\* after the closure of position k (or at its start): on to the next open job
\* type, or to the last GetEnrichment
OrchAdvance(o, completedJobs, k) ==
    LET n == NextToClose(o, completedJobs, k)
    IN  [o EXCEPT !.completedJobs = completedJobs, !.k = n, !.acj = <<>>,
                  !.resultJSON = NullResult,
                  !.pc = IF n = 3 THEN "final_get" ELSE "close_field"]

\* the final check begun without wg.Wait()
OrchWaitWithoutWait(e) ==
    /\ orch[e].pc = "wait"
    /\ orch' = [orch EXCEPT ![e] = OrchAdvance(orch[e], GetEnrichmentJobs(db[e]).completedJobs, 1)]
    /\ UNCHANGED <<now, db, mockData, sched, runner>>

\* wg.Wait(), then GetEnrichmentJobs for the final check
OrchWait(e) ==
    /\ orch[e].pc = "wait"
    /\ \A j \in Jobs : runner[e][j].pc \in {"idle", "done"}
    /\ orch' = [orch EXCEPT ![e] = OrchAdvance(orch[e], GetEnrichmentJobs(db[e]).completedJobs, 1)]
    /\ UNCHANGED <<now, db, mockData, sched, runner>>

\* final check: UpdateEnrichmentResultField(id, job, "")
OrchCloseField(e) ==
    /\ orch[e].pc = "close_field"
    /\ db' = [db EXCEPT ![e] = UpdateEnrichmentResultField(db[e], JobOrder[orch[e].k], "")]
    /\ orch' = [orch EXCEPT ![e].pc = "close_read"]
    /\ UNCHANGED <<now, mockData, sched, runner>>

\* final check: AddCompletedJob, its GetEnrichmentJobs
OrchCloseRead(e) ==
    /\ orch[e].pc = "close_read"
    /\ LET acj == AddCompletedJobRead(db[e], JobOrder[orch[e].k])
       IN  orch' = [orch EXCEPT ![e] =
                IF acj.already THEN OrchAdvance(orch[e], orch[e].completedJobs, orch[e].k + 1)
                ELSE [orch[e] EXCEPT !.acj = acj,
                                     !.pc = IF acj.allCompleted THEN "close_get" ELSE "close_update"]]
    /\ UNCHANGED <<now, db, mockData, sched, runner>>

\* final check: AddCompletedJob, its GetEnrichment
OrchCloseGet(e) ==
    /\ orch[e].pc = "close_get"
    /\ orch' = [orch EXCEPT ![e].resultJSON = AddCompletedJobResult(db[e]),
                            ![e].pc = "close_update"]
    /\ UNCHANGED <<now, db, mockData, sched, runner>>

\* final check: AddCompletedJob, its UPDATE
OrchCloseUpdate(e) ==
    /\ orch[e].pc = "close_update"
    /\ db' = [db EXCEPT ![e] = AddCompletedJobUpdate(db[e], orch[e].acj.completedJobs,
                                    orch[e].acj.allCompleted, orch[e].resultJSON)]
    /\ orch' = [orch EXCEPT ![e] = OrchAdvance(orch[e], orch[e].completedJobs, orch[e].k + 1)]
    /\ UNCHANGED <<now, mockData, sched, runner>>

\* the last GetEnrichment, which only logs
OrchFinalGet(e) ==
    /\ orch[e].pc = "final_get"
    /\ orch' = [orch EXCEPT ![e].pc = "done"]
    /\ UNCHANGED <<now, db, mockData, sched, runner>>

\* -------------------------------------------------------------- job runner
\* the provider list ranged over from its end
ProviderFromTheEnd(e, j) ==
    orch[e].providers[Len(orch[e].providers) + 1 - runner[e][j].i]

\* processJobForEnrichment(id, contact, jobType, providers, rate); the provider
\* of the current iteration is orch[e].providers[runner[e][j].i]
Provider(e, j) == orch[e].providers[runner[e][j].i]

\* return
RunnerReturn(r) ==
    [IdleRunner EXCEPT !.pc = "done", !.i = r.i, !.added = r.added,
                       !.successRate = r.successRate, !.queried = r.queried,
                       !.faulted = r.faulted]

\* the next iteration of the range loop, or the end of the function
RunnerContinue(r, providers) ==
    IF r.i < Len(providers)
    THEN [IdleRunner EXCEPT !.pc = "loop", !.i = r.i + 1,
                            !.successRate = r.successRate, !.queried = r.queried,
                       !.faulted = r.faulted]
    ELSE RunnerReturn(r)

\* top of the loop: GetEnrichment, or the GetEnrichmentJobs of the last check,
\* returns an error, and the runner returns
RunnerFault(e, j) ==
    /\ runner[e][j].pc \in {"loop", "check_completed"}
    /\ runner' = [runner EXCEPT ![e][j] = RunnerReturn([runner[e][j] EXCEPT !.faulted = TRUE])]
    /\ UNCHANGED <<now, db, mockData, sched, orch>>

\* top of the loop: GetEnrichment for the status
RunnerGetEnrichment(e, j) ==
    /\ runner[e][j].pc = "loop"
    /\ LET enrichment == GetEnrichment(db[e])
       IN  runner' = [runner EXCEPT ![e][j].status = enrichment.Status,
                        ![e][j].pc = IF enrichment.Status # EnrichmentStatusInProgress
                                     THEN "check_not_in_progress" ELSE "check_completed"]
    /\ UNCHANGED <<now, db, mockData, sched, orch>>

\* RunnerCheckCompleted that returns as soon as any job type is completed
RunnerCheckCompletedAnyJob(e, j) ==
    /\ runner[e][j].pc \in {"check_not_in_progress", "check_completed"}
    /\ runner' = [runner EXCEPT ![e][j] =
            IF GetEnrichmentJobs(db[e]).completedJobs # <<>>
            THEN RunnerReturn(runner[e][j])
            ELSE [runner[e][j] EXCEPT !.pc = "set_provider", !.status = ""]]
    /\ UNCHANGED <<now, db, mockData, sched, orch>>

\* RunnerCheckCompleted without the return on status failed
RunnerCheckCompletedIgnoringFailed(e, j) ==
    /\ runner[e][j].pc \in {"check_not_in_progress", "check_completed"}
    /\ runner' = [runner EXCEPT ![e][j] =
            IF Contains(GetEnrichmentJobs(db[e]).completedJobs, j)
            THEN RunnerReturn(runner[e][j])
            ELSE IF runner[e][j].pc = "check_not_in_progress"
                 THEN [runner[e][j] EXCEPT !.pc = "check_completed"]
                 ELSE [runner[e][j] EXCEPT !.pc = "set_provider", !.status = ""]]
    /\ UNCHANGED <<now, db, mockData, sched, orch>>

\* GetEnrichmentJobs, issued once when the status read was in_progress and
\* twice when it was not: in the extra first check the runner returns when the
\* job is completed or the status was failed; in the last it returns when the
\* job is completed
RunnerCheckCompleted(e, j) ==
    /\ runner[e][j].pc \in {"check_not_in_progress", "check_completed"}
    /\ LET completed == Contains(GetEnrichmentJobs(db[e]).completedJobs, j)
       IN  runner' = [runner EXCEPT ![e][j] =
            IF runner[e][j].pc = "check_not_in_progress"
            THEN IF completed \/ runner[e][j].status = EnrichmentStatusFailed
                 THEN RunnerReturn(runner[e][j])
                 ELSE [runner[e][j] EXCEPT !.pc = "check_completed"]
            ELSE IF completed
                 THEN RunnerReturn(runner[e][j])
                 ELSE [runner[e][j] EXCEPT !.pc = "set_provider", !.status = ""]]
    /\ UNCHANGED <<now, db, mockData, sched, orch>>

\* UpdateEnrichmentStatusWithJobProvider(id, in_progress, nil, &provider.ID, job)
RunnerSetProvider(e, j) ==
    /\ runner[e][j].pc = "set_provider"
    /\ db' = [db EXCEPT ![e] = UpdateEnrichmentStatusWithJobProvider(db[e],
                EnrichmentStatusInProgress, NullResult, Provider(e, j), j)]
    /\ runner' = [runner EXCEPT ![e][j].pc = "query"]
    /\ UNCHANGED <<now, mockData, sched, orch>>

\* GroundTruth with a placeholder for a job type the directory has no value of
GroundTruthWithPlaceholder(md, contactID, j) ==
    LET data == GetEnrichmentData(md, contactID)
    IN  IF data[j] = "" THEN "unknown" ELSE data[j]

\* the value GetEnrichmentData holds for the job type, "" when it has none
GroundTruth(md, contactID, j) ==
    LET data == GetEnrichmentData(md, contactID)
    IN  IF data.exists THEN data[j] ELSE ""

\* rand.Float32() < successRate: the outcomes a rate in percent allows
Draws(successRate) ==
    { d \in BOOLEAN : (d => successRate > 0) /\ (~d => successRate < 100) }

\* time.Sleep, the draw rand.Float32() < successRate, GetEnrichmentData
RunnerQuery(e, j) ==
    /\ runner[e][j].pc = "query"
    /\ \E draw \in Draws(runner[e][j].successRate) :
         LET value == GroundTruth(mockData, db[e].user_id, j)
             r == [runner[e][j] EXCEPT !.queried = Append(@, Provider(e, j))]
         IN  runner' = [runner EXCEPT ![e][j] =
                IF draw /\ value # ""
                THEN [r EXCEPT !.pc = "set_result", !.value = value]
                ELSE RunnerContinue(r, orch[e].providers)]
    /\ UNCHANGED <<now, db, mockData, sched, orch>>

\* found: UpdateEnrichmentResultField(id, job, value)
RunnerSetResult(e, j) ==
    /\ runner[e][j].pc = "set_result"
    /\ db' = [db EXCEPT ![e] = UpdateEnrichmentResultField(db[e], j, runner[e][j].value)]
    /\ runner' = [runner EXCEPT ![e][j].pc = "set_found_provider"]
    /\ UNCHANGED <<now, mockData, sched, orch>>

\* found: UpdateEnrichmentStatusWithJobProvider(id, in_progress, nil, &provider.ID, job)
RunnerSetFoundProvider(e, j) ==
    /\ runner[e][j].pc = "set_found_provider"
    /\ db' = [db EXCEPT ![e] = UpdateEnrichmentStatusWithJobProvider(db[e],
                EnrichmentStatusInProgress, NullResult, Provider(e, j), j)]
    /\ runner' = [runner EXCEPT ![e][j].pc = "update_contact"]
    /\ UNCHANGED <<now, mockData, sched, orch>>

\* found: UpdateContactPhone / UpdateContactEmail
RunnerUpdateContact(e, j) ==
    /\ runner[e][j].pc = "update_contact"
    /\ mockData' = UpdateContact(mockData, db[e].user_id, j, runner[e][j].value)
    /\ runner' = [runner EXCEPT ![e][j].pc = "add_read", ![e][j].value = ""]
    /\ UNCHANGED <<now, db, sched, orch>>

\* found: AddCompletedJob, its GetEnrichmentJobs
RunnerAddRead(e, j) ==
    /\ runner[e][j].pc = "add_read"
    /\ LET acj == AddCompletedJobRead(db[e], j)
       IN  runner' = [runner EXCEPT ![e][j] =
                IF acj.already THEN [runner[e][j] EXCEPT !.pc = "clear_provider", !.added = "already"]
                ELSE [runner[e][j] EXCEPT !.acj = acj,
                        !.pc = IF acj.allCompleted THEN "add_get" ELSE "add_update"]]
    /\ UNCHANGED <<now, db, mockData, sched, orch>>

\* found: AddCompletedJob, its GetEnrichment
RunnerAddGet(e, j) ==
    /\ runner[e][j].pc = "add_get"
    /\ runner' = [runner EXCEPT ![e][j].resultJSON = AddCompletedJobResult(db[e]),
                                ![e][j].pc = "add_update"]
    /\ UNCHANGED <<now, db, mockData, sched, orch>>

\* found: AddCompletedJob, its UPDATE
RunnerAddUpdate(e, j) ==
    /\ runner[e][j].pc = "add_update"
    /\ db' = [db EXCEPT ![e] = AddCompletedJobUpdate(db[e], runner[e][j].acj.completedJobs,
                                    runner[e][j].acj.allCompleted, runner[e][j].resultJSON)]
    /\ runner' = [runner EXCEPT ![e][j].pc = "clear_provider", ![e][j].acj = <<>>,
                                ![e][j].resultJSON = NullResult,
                                ![e][j].added = IF runner[e][j].acj.allCompleted
                                                THEN "completed" ELSE "added"]
    /\ UNCHANGED <<now, mockData, sched, orch>>

\* RunnerClearProvider that writes failed where the code writes in_progress
RunnerClearProviderFailing(e, j) ==
    /\ runner[e][j].pc = "clear_provider"
    /\ db' = [db EXCEPT ![e] = UpdateEnrichmentStatusWithJobProvider(db[e],
                EnrichmentStatusFailed, NullResult, NULL, j)]
    /\ runner' = [runner EXCEPT ![e][j] = RunnerReturn(runner[e][j])]
    /\ UNCHANGED <<now, mockData, sched, orch>>

\* found: UpdateEnrichmentStatusWithJobProvider(id, in_progress, nil, nil, job),
\* then return
RunnerClearProvider(e, j) ==
    /\ runner[e][j].pc = "clear_provider"
    /\ db' = [db EXCEPT ![e] = UpdateEnrichmentStatusWithJobProvider(db[e],
                EnrichmentStatusInProgress, NullResult, NULL, j)]
    /\ runner' = [runner EXCEPT ![e][j] = RunnerReturn(runner[e][j])]
    /\ UNCHANGED <<now, mockData, sched, orch>>

\* ------------------------------------------------------------ specification
Scheduler ==
    \/ SchedulerStart
    \/ SchedulerTick
    \/ \E e \in EnrichmentIds : Promote(e)
    \/ Stop
    \/ SchedulerExit

Orchestrator(e) ==
    \/ OrchGetContact(e)
    \/ OrchGetJobs(e)
    \/ OrchGetProviders(e)
    \/ OrchSpawn(e)
    \/ OrchWait(e)
    \/ OrchCloseField(e)
    \/ OrchCloseRead(e)
    \/ OrchCloseGet(e)
    \/ OrchCloseUpdate(e)
    \/ OrchFinalGet(e)

JobRunner(e, j) ==
    \/ RunnerGetEnrichment(e, j)
    \/ RunnerCheckCompleted(e, j)
    \/ RunnerSetProvider(e, j)
    \/ RunnerQuery(e, j)
    \/ RunnerSetResult(e, j)
    \/ RunnerSetFoundProvider(e, j)
    \/ RunnerUpdateContact(e, j)
    \/ RunnerAddRead(e, j)
    \/ RunnerAddGet(e, j)
    \/ RunnerAddUpdate(e, j)
    \/ RunnerClearProvider(e, j)

Next ==
    \/ Tick
    \/ \E userID \in UserIds, jobs \in RequestJobs : StartEnrichment(userID, jobs)
    \/ Scheduler
    \/ \E e \in EnrichmentIds : Orchestrator(e)
    \/ \E e \in EnrichmentIds, j \in Jobs : JobRunner(e, j)

Spec == Init /\ [][Next]_vars

\* Job runners and orchestrators are goroutines that the Go scheduler keeps
\* running: each takes its next step when it has one.  Nothing forces the
\* clock, a client, or the scheduler loop.
FairSpec ==
    /\ Spec
    /\ \A e \in EnrichmentIds : WF_vars(Orchestrator(e))
    /\ \A e \in EnrichmentIds, j \in Jobs : WF_vars(JobRunner(e, j))

\* The run loop goes on to its next select after each tick, and a select with
\* stopCh closed takes that case sooner or later, also when ticks are ready.
StopSpec ==
    /\ FairSpec
    /\ WF_vars(\E e \in EnrichmentIds : Promote(e))
    /\ SF_vars(SchedulerExit)

\* ------------------------------------------- runs on rows with contact info
\* An orchestrator run on an enrichment that was created with contact info and
\* has just been promoted; the scheduler has stopped.  inputs is a set of
\* pairs of contact info and third-party map.
PromotedInit(inputs, jobLists, providerCounts, dataChoices) ==
    /\ now = 0
    /\ \E in \in inputs, jobs \in jobLists, n \in providerCounts, data \in dataChoices :
         /\ mockData = [Contacts       |-> [c \in ContactIds |-> [phone |-> "", email |-> ""]],
                        EnrichmentData |-> data,
                        Providers      |-> 1..n,
                        ThirdParty     |-> in[2]]
         /\ db = [id \in EnrichmentIds |->
                    IF id \in DynamicIds
                    THEN [CreateEnrichment("c1", jobs, now) EXCEPT
                            !.status = EnrichmentStatusInProgress, !.contact_info = in[1]]
                    ELSE SeedStaticEnrichments[id]]
    /\ sched = [pc |-> "stopped", todo |-> {}, nextTick |-> 0, stop |-> TRUE]
    /\ orch = [e \in EnrichmentIds |->
                IF e \in DynamicIds THEN [IdleOrch EXCEPT !.pc = "start"] ELSE IdleOrch]
    /\ runner = [e \in EnrichmentIds |-> [j \in Jobs |-> IdleRunner]]

\* Contact info with the given scalar fields and lists.
ContactInfo(l, t, g, b, c, skills, companies) ==
    [isNil |-> FALSE, LinkedInURL |-> l, TwitterHandle |-> t, GitHubUsername |-> g,
     Bio |-> b, Location |-> c, Skills |-> skills, Companies |-> companies]
ThirdPartyOf(info) == [name \in {"john doe"} |-> info]
NoThirdParty == [name \in {} |-> JohnDoe]

\* Whole runs: no contact info, contact info that is the third-party data,
\* that differs from it in letter case or in a letter, that is empty, that
\* has one list; with and without third-party data for the contact.
RateInputs ==
    { NoContactInfo, JohnDoe,
      ContactInfo("Go", "", "", "", "", <<>>, <<>>),
      ContactInfo("sql", "", "", "", "", <<>>, <<>>),
      ContactInfo("", "", "", "", "", <<>>, <<>>),
      ContactInfo("", "", "", "", "", <<"sql", "go">>, <<>>) }
    \X { NoThirdParty, ThirdPartyOf(JohnDoe) }

RateInit ==
    PromotedInit(RateInputs, { <<"phone", "email">>, <<"email">> }, 1..MaxProviders,
                 { <<>>, [c \in ContactIds |-> [phone |-> PhoneValue, email |-> EmailValue]] })

RateNext ==
    \/ \E e \in EnrichmentIds : Orchestrator(e)
    \/ \E e \in EnrichmentIds, j \in Jobs : JobRunner(e, j)

RateSpec == RateInit /\ [][RateNext]_vars

\* The comparison alone: the run up to the success rate, on every contact
\* info with scalar fields only against third-party data in either letter
\* case, and on every contact info with lists only against every skills list.
Lists == UNION { [1..n -> Strings] : n \in 0..MaxListLen }
MatchInputs ==
    { <<ContactInfo(l, t, g, b, c, <<>>, <<>>),
        ThirdPartyOf(ContactInfo(v, v, v, v, v, <<"Go", "sql">>, <<"go">>))>> :
        l \in Strings \cup {""}, t \in Strings \cup {""}, g \in Strings \cup {""},
        b \in Strings \cup {""}, c \in Strings \cup {""}, v \in {"go", "Go"} }
    \cup
    { <<ContactInfo("", "", "", "", "", skills, companies),
        ThirdPartyOf(ContactInfo("go", "go", "go", "go", "go", theirs, <<"go">>))>> :
        skills \in Lists, theirs \in Lists, companies \in { <<>>, <<"Go">>, <<"sql">> } }

MatchInit ==
    PromotedInit(MatchInputs, { <<"phone", "email">> }, {1},
                 { [c \in ContactIds |-> [phone |-> PhoneValue, email |-> EmailValue]] })

MatchNext ==
    \E e \in EnrichmentIds : OrchGetContact(e) \/ OrchGetJobs(e) \/ OrchGetProviders(e)

MatchSpec == MatchInit /\ [][MatchNext]_vars

\* ------------------------------------------- runs with failing store reads
\* An orchestrator run on a promoted enrichment whose job runners' store reads
\* can fail, and on one whose stored job list, written through
\* CreateEnrichment directly, has no job type the worker knows.
OrchInit ==
    PromotedInit({ <<NoContactInfo, ThirdPartyOf(JohnDoe)>> },
                 { <<"phone", "email">>, <<"fax">> }, 1..MaxProviders,
                 { <<>>, [c \in ContactIds |-> [phone |-> PhoneValue, email |-> EmailValue]] })

OrchNext ==
    \/ \E e \in EnrichmentIds : Orchestrator(e)
    \/ \E e \in EnrichmentIds, j \in Jobs : JobRunner(e, j)
    \/ \E e \in EnrichmentIds, j \in Jobs : RunnerFault(e, j)

OrchSpec == OrchInit /\ [][OrchNext]_vars

\* ------------------------------------------ two enrichments, several ticks
\* The worker some ticks after its start (at StartedAt), a tick being due now:
\* two pending enrichments, the first created long enough ago to be due at
\* this tick but not at the one before, the second as long ago or one second
\* ago, which makes it due at the next tick.
StartedAt == 0 - 2 * PollInterval
SchedInit ==
    /\ now = 0
    /\ mockData = [Contacts       |-> [c \in ContactIds |-> [phone |-> "", email |-> ""]],
                   EnrichmentData |-> [c \in ContactIds |->
                                          [phone |-> PhoneValue, email |-> EmailValue]],
                   Providers      |-> {1},
                   ThirdParty     |-> ThirdPartyOf(JohnDoe)]
    /\ \E t2 \in {0 - PendingToInProgressDelay - TicksPerSecond, 0 - TicksPerSecond} :
         db = [id \in EnrichmentIds |->
                IF id \in DynamicIds
                THEN CreateEnrichment("c1", <<"phone">>,
                                      0 - PendingToInProgressDelay - TicksPerSecond)
                ELSE IF id \in SecondIds
                THEN CreateEnrichment("c1", <<"phone">>, t2)
                ELSE [SeedStaticEnrichments[id] EXCEPT
                        !.created_at = Format(StartedAt), !.clock = StartedAt]]
    /\ sched = [pc |-> "idle", todo |-> {}, nextTick |-> 0, stop |-> FALSE]
    /\ orch = [e \in EnrichmentIds |-> IdleOrch]
    /\ runner = [e \in EnrichmentIds |-> [j \in Jobs |-> IdleRunner]]

SchedNext ==
    \/ Tick
    \/ SchedulerTick
    \/ \E e \in EnrichmentIds : Promote(e)
    \/ \E e \in EnrichmentIds : Orchestrator(e)
    \/ \E e \in EnrichmentIds, j \in Jobs : JobRunner(e, j)

SchedSpec == SchedInit /\ [][SchedNext]_vars

\* --------------------------------------------- job runners on any record
\* processJobForEnrichment called for both job types on a record in any
\* status and with any completedJobs, as its loop-top checks provide for.
RunnerInit ==
    /\ now = 0
    /\ \E n \in 1..MaxProviders, data \in EnrichmentDataChoices :
         mockData = [Contacts       |-> [c \in ContactIds |-> [phone |-> "", email |-> ""]],
                     EnrichmentData |-> data,
                     Providers      |-> 1..n,
                     ThirdParty     |-> ThirdPartyOf(JohnDoe)]
    /\ \E status \in {EnrichmentStatusPending, EnrichmentStatusInProgress,
                       EnrichmentStatusCompleted, EnrichmentStatusFailed},
          completedJobs \in { <<>>, <<"phone">>, <<"email">>, <<"phone", "email">> } :
         db = [id \in EnrichmentIds |->
                IF id \in DynamicIds
                THEN [CreateEnrichment("c1", <<"phone", "email">>, now) EXCEPT
                        !.status = status, !.completed_jobs = completedJobs]
                ELSE SeedStaticEnrichments[id]]
    /\ sched = [pc |-> "stopped", todo |-> {}, nextTick |-> 0, stop |-> TRUE]
    /\ \E providers \in GetAllProviders(mockData) :
         orch = [e \in EnrichmentIds |->
                    IF e \in DynamicIds
                    THEN [IdleOrch EXCEPT !.pc = "wait", !.jobs = db[e].jobs,
                                          !.providers = providers,
                                          !.successRate = ProviderSuccessRate]
                    ELSE IdleOrch]
    /\ runner = [e \in EnrichmentIds |->
                    [j \in Jobs |-> IF e \in DynamicIds
                                    THEN [IdleRunner EXCEPT !.pc = "loop", !.i = 1,
                                            !.successRate = ProviderSuccessRate]
                                    ELSE IdleRunner]]

RunnerNext == \E e \in EnrichmentIds, j \in Jobs : JobRunner(e, j)

RunnerSpec == RunnerInit /\ [][RunnerNext]_vars

\* ------------------------------------------------- the store under callers
\* The store's functions called directly, in any order and interleaving, by one
\* caller per job type on an enrichment that StartEnrichment has just created.
\* In runner[e][c], pc = "client" is caller c between two calls.
StoreInit ==
    /\ now = 0
    /\ mockData = [Contacts       |-> [c \in ContactIds |-> [phone |-> "", email |-> ""]],
                   EnrichmentData |-> [c \in ContactIds |-> [phone |-> PhoneValue, email |-> EmailValue]],
                   Providers      |-> 1..MaxProviders,
                   ThirdParty     |-> [name \in {"john doe"} |-> JohnDoe]]
    /\ \E userID \in ContactIds, jobs \in RequestJobs :
         /\ Len(jobs) > 0 => Len(SelectJobs(jobs)) > 0
         /\ db = [id \in EnrichmentIds |->
                    IF id \in DynamicIds
                    THEN CreateEnrichment(userID, SelectJobs(jobs), now)
                    ELSE SeedStaticEnrichments[id]]
    /\ sched = [pc |-> "stopped", todo |-> {}, nextTick |-> 0, stop |-> TRUE]
    /\ orch = [e \in EnrichmentIds |-> IdleOrch]
    /\ runner = [e \in EnrichmentIds |->
                    [j \in Jobs |-> IF e \in DynamicIds
                                    THEN [IdleRunner EXCEPT !.pc = "client"]
                                    ELSE IdleRunner]]

\* AddCompletedJob(e, c) is called: its GetEnrichmentJobs, and the return when
\* the job is already completed
ClientAddRead(e, c) ==
    /\ runner[e][c].pc = "client"
    /\ LET acj == AddCompletedJobRead(db[e], c)
       IN  runner' = [runner EXCEPT ![e][c] =
                IF acj.already THEN [runner[e][c] EXCEPT !.added = "already"]
                ELSE [runner[e][c] EXCEPT !.acj = acj,
                        !.pc = IF acj.allCompleted THEN "client_get" ELSE "client_update"]]
    /\ UNCHANGED <<now, db, mockData, sched, orch>>

\* AddCompletedJob, its GetEnrichment
ClientAddGet(e, c) ==
    /\ runner[e][c].pc = "client_get"
    /\ runner' = [runner EXCEPT ![e][c].resultJSON = AddCompletedJobResult(db[e]),
                                ![e][c].pc = "client_update"]
    /\ UNCHANGED <<now, db, mockData, sched, orch>>

\* AddCompletedJob, its UPDATE, and the return
ClientAddUpdate(e, c) ==
    /\ runner[e][c].pc = "client_update"
    /\ db' = [db EXCEPT ![e] = AddCompletedJobUpdate(db[e], runner[e][c].acj.completedJobs,
                                    runner[e][c].acj.allCompleted, runner[e][c].resultJSON)]
    /\ runner' = [runner EXCEPT ![e][c].pc = "client", ![e][c].acj = <<>>,
                                ![e][c].resultJSON = NullResult,
                                ![e][c].added = IF runner[e][c].acj.allCompleted
                                                THEN "completed" ELSE "added"]
    /\ UNCHANGED <<now, mockData, sched, orch>>

\* UpdateEnrichmentStatusWithJobProvider(e, in_progress, nil, providerID, c)
ClientSetProvider(e, c, providerID) ==
    /\ runner[e][c].pc = "client"
    /\ db' = [db EXCEPT ![e] = UpdateEnrichmentStatusWithJobProvider(db[e],
                EnrichmentStatusInProgress, NullResult, providerID, c)]
    /\ UNCHANGED <<now, mockData, sched, orch, runner>>

\* UpdateEnrichmentResultField(e, c, value)
ClientSetResultField(e, c, value) ==
    /\ runner[e][c].pc = "client"
    /\ db' = [db EXCEPT ![e] = UpdateEnrichmentResultField(db[e], c, value)]
    /\ UNCHANGED <<now, mockData, sched, orch, runner>>

StoreNext ==
    \E e \in DynamicIds, c \in Jobs :
        \/ ClientAddRead(e, c)
        \/ ClientAddGet(e, c)
        \/ ClientAddUpdate(e, c)
        \/ \E providerID \in {NULL} \cup mockData.Providers : ClientSetProvider(e, c, providerID)
        \/ \E value \in {"", GroundTruth(mockData, db[e].user_id, c)} : ClientSetResultField(e, c, value)

StoreSpec == StoreInit /\ [][StoreNext]_vars

\* ------------------------------------------------------------------ claims
RequestedJobs(e) == Range(db[e].jobs)
CompletedJobs(e) == Range(db[e].completed_jobs)
RunEnded(e) == orch[e].pc = "done" /\ \A j \in Jobs : runner[e][j].pc \in {"idle", "done"}

\* C1: once every requested job type is in completedJobs and the job runners
\* and the orchestrator run of the enrichment have ended, the status is
\* completed and the phone and email provider pointers are both empty.
CompletionClosure ==
    \A e \in DynamicIds :
        (db[e].exists /\ RunEnded(e) /\ RequestedJobs(e) \subseteq CompletedJobs(e))
        => /\ db[e].status = EnrichmentStatusCompleted
           /\ db[e].phone_provider_id = NULL
           /\ db[e].email_provider_id = NULL

\* C2: a status of completed or failed is followed only by that same status.
TerminalStatusIsKept ==
    [][\A e \in EnrichmentIds :
         db[e].status \in {EnrichmentStatusCompleted, EnrichmentStatusFailed}
         => db'[e].status = db[e].status]_vars

\* C3: every promoted enrichment whose subject the directory knows and whose
\* provider list is not empty eventually has status completed, whatever the
\* draws are.
Resolvable(e) == GetContact(mockData, db[e].user_id) /\ mockData.Providers # {}
Promoted(e) == orch[e].pc = "start" /\ Resolvable(e)
EventuallyCompleted ==
    \A e \in DynamicIds : Promoted(e) ~> (db[e].status = EnrichmentStatusCompleted)
\* C3, witness: a run with a known subject and providers has ended with the
\* status completed.
EventuallyCompletedWitness ==
    \E e \in DynamicIds :
        Resolvable(e) /\ RunEnded(e) /\ db[e].status = EnrichmentStatusCompleted

\* C4: a non-empty result value of a job type, once in the record, stays the
\* same in every later state of the record.
ResultNeverRegresses ==
    [][\A e \in EnrichmentIds, j \in Jobs :
         ResultValue(db[e], j) # "" => ResultValue(db'[e], j) = ResultValue(db[e], j)]_vars

\* C5: completedJobs never shrinks from one state of the record to the next.
CompletedJobsNeverShrinks ==
    [][\A e \in EnrichmentIds : CompletedJobs(e) \subseteq Range(db'[e].completed_jobs)]_vars

\* C6: when the AddCompletedJob calls of the phone and of the email job runner
\* of one enrichment have both returned, completedJobs holds both job types and
\* exactly one of the two calls has set the status to completed.
AddCompletedJobIsAtomic ==
    \A e \in DynamicIds :
        (\A j \in Jobs : runner[e][j].added # "none")
        => /\ Jobs \subseteq CompletedJobs(e)
           /\ Cardinality({ j \in Jobs : runner[e][j].added = "completed" }) = 1

\* C7: with the phone runner's provider pointer written and the email runner's
\* result field written, in either order and with nothing else written since,
\* the record shows both the pointer and the result.
DisjointFieldWritesAreKept ==
    \A e \in DynamicIds :
        (runner[e]["phone"].pc = "query" /\ runner[e]["email"].pc = "set_found_provider")
        => /\ db[e].phone_provider_id = Provider(e, "phone")
           /\ ResultValue(db[e], "email") = runner[e]["email"].value

\* C8: a step that sets or clears one job type's provider pointer leaves the
\* other job type's pointer, the result column and completedJobs as they were.
IsProviderWrite(e, j) ==
    RunnerSetProvider(e, j) \/ RunnerSetFoundProvider(e, j) \/ RunnerClearProvider(e, j)
ProviderWriteFrame ==
    [][\A e \in EnrichmentIds :
         /\ IsProviderWrite(e, "phone")
            => /\ db'[e].email_provider_id = db[e].email_provider_id
               /\ db'[e].result = db[e].result
               /\ db'[e].completed_jobs = db[e].completed_jobs
         /\ IsProviderWrite(e, "email")
            => /\ db'[e].phone_provider_id = db[e].phone_provider_id
               /\ db'[e].result = db[e].result
               /\ db'[e].completed_jobs = db[e].completed_jobs]_vars

\* C10: completedJobs is a subset of requestedJobs in every state.
CompletedSubsetOfRequested ==
    \A e \in EnrichmentIds : CompletedJobs(e) \subseteq RequestedJobs(e)
\* C10, witness: a job type was marked completed on an enrichment that did not
\* request the other one.
CompletedSubsetOfRequestedWitness ==
    \E e \in DynamicIds : CompletedJobs(e) # {} /\ RequestedJobs(e) # Jobs

\* C9: an AddCompletedJob call for a job type that is already in completedJobs
\* returns from its first statement and changes nothing in the table: no
\* further entry in completedJobs, no status, provider pointer or result write.
AddCompletedJobIsIdempotent ==
    [][\A e \in DynamicIds, c \in Jobs :
         (ClientAddRead(e, c) /\ Contains(db[e].completed_jobs, c))
         => (db' = db /\ runner'[e][c].pc = "client")]_vars
\* C9, witness: a caller's second call has returned, its job type being in
\* completedJobs once.
AddCompletedJobIsIdempotentWitness ==
    \E e \in DynamicIds, c \in Jobs :
        /\ runner[e][c].pc = "client"
        /\ runner[e][c].added = "already"
        /\ Cardinality({ i \in DOMAIN db[e].completed_jobs : db[e].completed_jobs[i] = c }) = 1

\* C11: a dynamically created enrichment with status completed has an entry
\* in result for every requested job type and no per-job provider pointer.
CompletedHasEveryResult ==
    \A e \in DynamicIds :
        (db[e].exists /\ db[e].status = EnrichmentStatusCompleted)
        => /\ \A j \in RequestedJobs(e) : HasResult(db[e], j)
           /\ db[e].phone_provider_id = NULL
           /\ db[e].email_provider_id = NULL

\* C12: once the status of an enrichment is failed, no step changes any field
\* of its record.
FailedIsFrozen ==
    [][\A e \in EnrichmentIds :
         db[e].status = EnrichmentStatusFailed => db'[e] = db[e]]_vars
\* C12, witness: an orchestrator has failed its enrichment and returned.
FailedIsFrozenWitness ==
    \E e \in DynamicIds : db[e].status = EnrichmentStatusFailed /\ orch[e].pc = "done"

\* C13: both job types requested, a ground-truth phone and no ground-truth
\* email, and a successful phone draw: the run ends completed, with the phone
\* found, the email present and empty, and both job types completed.
PhoneFoundEmailMissing ==
    \A e \in DynamicIds :
        (/\ db[e].exists /\ RunEnded(e) /\ RequestedJobs(e) = Jobs
         /\ GroundTruth(mockData, db[e].user_id, "phone") # ""
         /\ GroundTruth(mockData, db[e].user_id, "email") = ""
         /\ runner[e]["phone"].added # "none")
        => /\ db[e].status = EnrichmentStatusCompleted
           /\ ResultValue(db[e], "phone") = GroundTruth(mockData, db[e].user_id, "phone")
           /\ HasResult(db[e], "email") /\ ResultValue(db[e], "email") = ""
           /\ CompletedJobs(e) = Jobs

\* C14: a requested job type without a ground-truth value is, at the end of the
\* run, present in the result with the empty string and in completedJobs.
ExhaustionYieldsEmpty ==
    \A e \in DynamicIds, j \in Jobs :
        (/\ db[e].exists /\ RunEnded(e) /\ j \in RequestedJobs(e)
         /\ GetContact(mockData, db[e].user_id) /\ mockData.Providers # {}
         /\ GroundTruth(mockData, db[e].user_id, j) = "")
        => /\ HasResult(db[e], j) /\ ResultValue(db[e], j) = ""
           /\ j \in CompletedJobs(e)

\* C15: an enrichment whose subject the directory does not know never has a
\* result, a completed job, a provider pointer or a job runner, and its
\* orchestrator leaves it failed.
UnknownSubject(e) == db[e].exists /\ db[e].user_id \notin DOMAIN mockData.Contacts
UnknownSubjectFails ==
    \A e \in DynamicIds :
        UnknownSubject(e)
        => /\ ~db[e].result.valid
           /\ db[e].completed_jobs = <<>>
           /\ db[e].current_provider_id = NULL
           /\ db[e].phone_provider_id = NULL /\ db[e].email_provider_id = NULL
           /\ \A j \in Jobs : runner[e][j].pc = "idle"
           /\ orch[e].pc = "done" => db[e].status = EnrichmentStatusFailed
\* C15, witness: the orchestrator of an enrichment with an unknown subject has
\* returned.
UnknownSubjectFailsWitness ==
    \E e \in DynamicIds :
        UnknownSubject(e) /\ orch[e].pc = "done"

\* C16, as claimed: with an empty provider list an enrichment is never
\* in_progress and no job runner is started for it.
EmptyProvidersFailDirectly ==
    \A e \in DynamicIds :
        (db[e].exists /\ mockData.Providers = {})
        => /\ db[e].status # EnrichmentStatusInProgress
           /\ \A j \in Jobs : runner[e][j].pc = "idle"
\* C16, amended: with an empty provider list an enrichment goes from pending
\* to in_progress at its promotion and from there to failed in its
\* orchestrator, which starts no job runner.
EmptyProvidersFailWithoutRunners ==
    \A e \in DynamicIds :
        (db[e].exists /\ mockData.Providers = {})
        => /\ \A j \in Jobs : runner[e][j].pc = "idle"
           /\ db[e].status \in {EnrichmentStatusPending, EnrichmentStatusInProgress,
                                EnrichmentStatusFailed}
           /\ db[e].status = EnrichmentStatusPending <=> orch[e].pc = "idle"
           /\ db[e].status = EnrichmentStatusFailed <=> orch[e].pc = "done"
\* C16, witness: with an empty provider list and a known subject, the
\* orchestrator has returned.
EmptyProvidersFailWitness ==
    \E e \in DynamicIds :
        /\ db[e].exists /\ mockData.Providers = {}
        /\ GetContact(mockData, db[e].user_id) /\ orch[e].pc = "done"

\* C17: the record StartEnrichment creates is new, pending, without result,
\* completed job or provider pointer; its jobs are the valid ones of the
\* request, or phone alone when the request names none.
CreatedRecordIsPending ==
    [][\A userID \in UserIds, jobs \in RequestJobs :
         StartEnrichment(userID, jobs)
         => \E id \in DynamicIds :
              /\ ~db[id].exists /\ db'[id].exists
              /\ db'[id].user_id = userID
              /\ db'[id].status = EnrichmentStatusPending
              /\ db'[id].completed_jobs = <<>>
              /\ ~db'[id].result.valid
              /\ db'[id].current_provider_id = NULL
              /\ db'[id].phone_provider_id = NULL /\ db'[id].email_provider_id = NULL
              /\ Range(db'[id].jobs) # {} /\ Range(db'[id].jobs) \subseteq Jobs
              /\ Range(db'[id].jobs) = IF Len(jobs) = 0 THEN {"phone"} ELSE Range(jobs) \cap Jobs]_vars
\* C17, witness: a record was created from a request without jobs.
CreatedRecordIsPendingWitness ==
    \E e \in DynamicIds :
        db[e].exists /\ db[e].status = EnrichmentStatusPending /\ db[e].jobs = <<"phone">>

\* C18: a dynamically created enrichment with status pending has no result, no
\* completed job, no provider pointer, no orchestrator and no job runner.
PendingIsUntouched ==
    \A e \in DynamicIds :
        (db[e].exists /\ db[e].status = EnrichmentStatusPending)
        => /\ ~db[e].result.valid
           /\ db[e].completed_jobs = <<>>
           /\ db[e].current_provider_id = NULL
           /\ db[e].phone_provider_id = NULL /\ db[e].email_provider_id = NULL
           /\ orch[e].pc = "idle"
           /\ \A j \in Jobs : runner[e][j].pc = "idle"
\* C18, witness: a created enrichment is still pending when its promotion is
\* due.
PendingIsUntouchedWitness ==
    \E e \in DynamicIds :
        /\ db[e].exists /\ db[e].status = EnrichmentStatusPending
        /\ e \in GetPendingEnrichments(db, PendingToInProgressDelay, now)

\* C19: each query of the scheduler selects for promotion exactly the records
\* that are not static, are pending and were created more than
\* PendingToInProgressDelay before it.
Due(e, t) ==
    /\ db[e].exists /\ ~db[e].is_static
    /\ db[e].status = EnrichmentStatusPending
    /\ db[e].clock + PendingToInProgressDelay < t
PromotesExactlyDue ==
    [][(SchedulerStart \/ SchedulerTick)
       => sched'.todo = { e \in EnrichmentIds : Due(e, now) }]_vars

\* C20: every static record is as it was seeded, and has no orchestrator and
\* no job runner.
StaticNeverChanges ==
    \A e \in StaticIds :
        /\ db[e] = SeedStaticEnrichments[e]
        /\ orch[e].pc = "idle"
        /\ \A j \in Jobs : runner[e][j].pc = "idle"
\* C20, witness: the scheduler has promoted a dynamic enrichment that is no
\* older than the static pending record, which is still pending.
StaticNeverChangesWitness ==
    /\ db["static_pending"].status = EnrichmentStatusPending
    /\ \E e \in DynamicIds :
         /\ orch[e].pc # "idle"
         /\ db["static_pending"].created_at <= db[e].created_at

\* C21: no job runner is stopped by the check at the top of its loop, also
\* after the other job type has been completed; a job runner that has not
\* returned always has its next step to take, whatever its sibling does; and
\* one that has returned has found its value or drawn for every provider.
RunnersAreIndependent ==
    /\ [][\A e \in DynamicIds, j \in Jobs :
            RunnerCheckCompleted(e, j) => runner'[e][j].pc # "done"]_vars
    /\ [](\A e \in DynamicIds, j \in Jobs :
            /\ runner[e][j].pc \notin {"idle", "done"} => ENABLED JobRunner(e, j)
            /\ runner[e][j].pc = "done" =>
                  \/ runner[e][j].added # "none"
                  \/ runner[e][j].queried = orch[e].providers)
\* C21, witness: the phone job was found and its runner has returned while
\* the email runner is querying a provider.
RunnersAreIndependentWitness ==
    \E e \in DynamicIds :
        /\ runner[e]["phone"].pc = "done" /\ runner[e]["phone"].added # "none"
        /\ runner[e]["email"].pc = "query"

Hint(e) == db[e].contact_info
HasProfile(e) == "john doe" \in DOMAIN mockData.ThirdParty
Profile(e) == mockData.ThirdParty["john doe"]
RateDecided(e) == orch[e].pc \notin {"idle", "start", "get_jobs", "get_providers"} /\ orch[e].providers # <<>>
ScalarsEqualIgnoringCase(hint, profile) ==
    \A f \in ScalarFields : hint[f] = "" \/ ToLower(hint[f]) = ToLower(profile[f])
EqualAsSets(a, b) == { ToLower(a[i]) : i \in DOMAIN a } = { ToLower(b[i]) : i \in DOMAIN b }
Occurrences(a, s) == Cardinality({ i \in DOMAIN a : ToLower(a[i]) = s })
EqualAsMultisets(a, b) == \A s \in { ToLower(x) : x \in Strings } : Occurrences(a, s) = Occurrences(b, s)

\* C23: once an orchestrator run has its success rate, the rate is the boosted
\* one exactly when contact info was supplied, the contact has third-party
\* data and the contact info matches it (scalar fields ignoring letter case,
\* lists as sets ignoring order and letter case), the configured one
\* otherwise; every job runner of the run holds that same rate throughout.
SuccessRateDecidedOnce ==
    \A e \in DynamicIds :
        RateDecided(e) =>
            /\ orch[e].successRate =
                  IF /\ ~Hint(e).isNil
                     /\ HasProfile(e)
                     /\ ScalarsEqualIgnoringCase(Hint(e), Profile(e))
                     /\ \A f \in {"Skills", "Companies"} :
                            Hint(e)[f] = <<>> \/ EqualAsSets(Hint(e)[f], Profile(e)[f])
                  THEN BoostedSuccessRate
                  ELSE ProviderSuccessRate
            /\ \A j \in Jobs :
                  runner[e][j].pc # "idle" => runner[e][j].successRate = orch[e].successRate

\* C24: contact info with scalar fields only matches the third-party data
\* exactly when each populated field equals the data's ignoring letter case.
ScalarsCompareIgnoringCase ==
    \A e \in DynamicIds :
        (RateDecided(e) /\ ~Hint(e).isNil /\ HasProfile(e)
            /\ Hint(e).Skills = <<>> /\ Hint(e).Companies = <<>>)
        => (contactInfoMatches(Hint(e), Profile(e))
                <=> ScalarsEqualIgnoringCase(Hint(e), Profile(e)))

\* C25 as stated: a populated skills list of the contact info compares equal
\* to the third-party data's exactly when the two are equal as sets ignoring
\* order and letter case.
ListsCompareAsSets ==
    \A e \in DynamicIds :
        (RateDecided(e) /\ ~Hint(e).isNil /\ HasProfile(e) /\ Hint(e).Skills # <<>>)
        => (stringSlicesEqual(Hint(e).Skills, Profile(e).Skills)
                <=> EqualAsSets(Hint(e).Skills, Profile(e).Skills))
\* C25, amended: a populated list of the contact info compares equal to the
\* third-party data's exactly when each string, lower-cased, occurs as often
\* in the one as in the other; contact info with lists only matches exactly
\* when each of its populated lists compares equal.
ListsCompareAsMultisets ==
    \A e \in DynamicIds :
        (RateDecided(e) /\ ~Hint(e).isNil /\ HasProfile(e))
        => /\ \A f \in {"Skills", "Companies"} :
                Hint(e)[f] # <<>> =>
                    (stringSlicesEqual(Hint(e)[f], Profile(e)[f])
                        <=> EqualAsMultisets(Hint(e)[f], Profile(e)[f]))
           /\ (\A f \in ScalarFields : Hint(e)[f] = "") =>
                (contactInfoMatches(Hint(e), Profile(e))
                    <=> \A f \in {"Skills", "Companies"} :
                            Hint(e)[f] = <<>> \/ EqualAsMultisets(Hint(e)[f], Profile(e)[f]))
\* C25, witness: skills with a repeated element, in another order and letter
\* case than the third-party data's, matched and got the boosted rate.
ListsCompareAsMultisetsWitness ==
    \E e \in DynamicIds :
        /\ RateDecided(e)
        /\ Hint(e).Skills = <<"go", "sql", "Go">>
        /\ Profile(e).Skills = <<"sql", "Go", "go">>
        /\ contactInfoMatches(Hint(e), Profile(e))
        /\ orch[e].successRate = BoostedSuccessRate

\* C26: a job runner whose loop-top check has read status failed, or finds
\* its own job type in completedJobs, returns in that step and leaves the
\* record and the directory as they are; a runner that has returned takes no
\* further step.
StopsAtLoopTop ==
    [][\A e \in DynamicIds, j \in Jobs :
        /\ (/\ RunnerCheckCompleted(e, j)
            /\ \/ runner[e][j].status = EnrichmentStatusFailed
               \/ Contains(db[e].completed_jobs, j))
           => (runner'[e][j].pc = "done" /\ db' = db /\ mockData' = mockData)
        /\ runner[e][j].pc = "done" => ~JobRunner(e, j)]_vars
\* C26, witness: on a failed record with two providers the phone runner has
\* returned without a draw and the record has no phone pointer.
StopsAtLoopTopWitness ==
    \E e \in DynamicIds :
        /\ db[e].status = EnrichmentStatusFailed
        /\ Len(orch[e].providers) = 2
        /\ runner[e]["phone"].pc = "done" /\ runner[e]["phone"].queried = <<>>
        /\ db[e].phone_provider_id = NULL

Pointer(row, j) == IF j = "phone" THEN row.phone_provider_id ELSE row.email_provider_id
FoundPcs ==
    {"set_result", "set_found_provider", "update_contact", "add_read", "add_get",
     "add_update", "clear_provider"}

\* C27: the providers a job runner has drawn for are the first ones of the
\* orchestrator's list, in its order, up to the provider of the current
\* iteration; after a find the runner draws no more; a pointer written for
\* the job names the provider of the runner's current iteration, and so does
\* the pointer while the runner draws.
ProvidersVisitedInOrder ==
    [][\A e \in DynamicIds, j \in Jobs :
        LET r == runner'[e][j]
            n == Len(r.queried)
        IN  /\ r.pc # "idle" =>
                /\ r.queried = SubSeq(orch'[e].providers, 1, n)
                /\ n = IF r.pc \in FoundPcs \cup {"done"} THEN r.i ELSE r.i - 1
                /\ r.pc = "query" => Pointer(db'[e], j) = orch'[e].providers[r.i]
            /\ (Pointer(db'[e], j) # Pointer(db[e], j) /\ Pointer(db'[e], j) # NULL)
                => Pointer(db'[e], j) = orch[e].providers[runner[e][j].i]
            /\ (runner[e][j].pc \in FoundPcs \/ runner[e][j].added # "none")
                => r.queried = runner[e][j].queried]_vars
\* C27, witness: the email runner draws for the second provider of the list,
\* having drawn for the first, after the phone runner found at the first.
ProvidersVisitedInOrderWitness ==
    \E e \in DynamicIds :
        /\ Len(orch[e].providers) = 2
        /\ runner[e]["email"].pc = "query" /\ runner[e]["email"].i = 2
        /\ runner[e]["email"].queried = <<orch[e].providers[1]>>
        /\ db[e].email_provider_id = orch[e].providers[2]
        /\ runner[e]["phone"].pc = "done" /\ runner[e]["phone"].queried = <<orch[e].providers[1]>>

\* The value the directory's EnrichmentData holds, "" when it holds none.
Truth(e, j) ==
    IF db[e].user_id \in DOMAIN mockData.EnrichmentData
    THEN mockData.EnrichmentData[db[e].user_id][j]
    ELSE ""

\* C28: a result value that is not empty is the directory's value for the
\* contact and job type; when the directory has none, the draw of a job
\* runner leaves the record as it is, the job is never added by the runner,
\* and the runner goes to the next provider if there is one.
FoundValueIsGroundTruth ==
    [][\A e \in DynamicIds, j \in Jobs :
        /\ ResultValue(db'[e], j) \in {"", Truth(e, j)}
        /\ Truth(e, j) = "" =>
            /\ runner'[e][j].added = "none"
            /\ RunnerQuery(e, j) =>
                /\ db' = db
                /\ IF runner[e][j].i < Len(orch[e].providers)
                   THEN runner'[e][j].pc = "loop" /\ runner'[e][j].i = runner[e][j].i + 1
                   ELSE runner'[e][j].pc = "done"]_vars
\* C28, witness: the directory has an email value and no phone value; the
\* email value is in the record and the phone runner is at its second provider.
FoundValueIsGroundTruthWitness ==
    \E e \in DynamicIds :
        /\ Truth(e, "phone") = "" /\ Truth(e, "email") # ""
        /\ ResultValue(db[e], "email") = Truth(e, "email")
        /\ runner[e]["phone"].i = 2 /\ runner[e]["phone"].pc = "query"

\* A job runner that has drawn for every provider and found nothing.
Exhausted(e, j) ==
    /\ runner[e][j].pc = "done" /\ runner[e][j].added = "none"
    /\ orch[e].providers # <<>>
    /\ runner[e][j].queried = orch[e].providers

\* C29 as stated: once a job runner has returned after its last provider
\* without a find, its job type is in completedJobs with "" as its result.
ExhaustedJobCompletedAtReturn ==
    \A e \in DynamicIds, j \in Jobs :
        Exhausted(e, j) =>
            j \in CompletedJobs(e) /\ HasResult(db[e], j) /\ ResultValue(db[e], j) = ""
\* C29, amended: the step in which a job runner returns after its last
\* provider without a find leaves the record as it is; the job type enters
\* completedJobs in a step of the orchestrator's final check, after every job
\* runner has returned and right after the final check wrote "" as its
\* result; it is in completedJobs when the run has ended.
ExhaustedJobCompletedAtRunEnd ==
    [][\A e \in DynamicIds, j \in Jobs :
        /\ (RunnerQuery(e, j) /\ runner'[e][j].pc = "done") => db' = db
        /\ (Exhausted(e, j) /\ j \notin CompletedJobs(e) /\ j \in Range(db'[e].completed_jobs))
            => /\ OrchCloseUpdate(e)
               /\ \A k \in Jobs : runner[e][k].pc \in {"idle", "done"}
        /\ (OrchCloseField(e) /\ JobOrder[orch[e].k] = j)
            => HasResult(db'[e], j) /\ ResultValue(db'[e], j) = ""
        /\ (Exhausted(e, j)' /\ RunEnded(e)') => j \in Range(db'[e].completed_jobs)]_vars
\* C29, witness: the phone runner has returned after its last provider
\* without a find, the email runner is still drawing, and phone is not in
\* completedJobs.
ExhaustedJobCompletedAtRunEndWitness ==
    \E e \in DynamicIds :
        /\ Exhausted(e, "phone")
        /\ runner[e]["email"].pc = "query"
        /\ "phone" \notin CompletedJobs(e)

\* C30: when a run that launched job runners has ended, every requested job
\* type is in completedJobs; the final check writes "" only for a job type
\* whose runner did not add it to completedJobs.
ClosureCompletesEveryJob ==
    [][\A e \in DynamicIds :
        /\ (RunEnded(e)' /\ \E j \in Jobs : runner'[e][j].pc = "done")
            => Range(db'[e].jobs) \subseteq Range(db'[e].completed_jobs)
        /\ OrchCloseField(e) => runner[e][JobOrder[orch[e].k]].added = "none"]_vars

ClosePcs == {"close_field", "close_read", "close_get", "close_update", "final_get"}
AllRunnersEnded(e) == \A j \in Jobs : runner[e][j].pc \in {"idle", "done"}

\* C31: while the orchestrator is in its final check every job runner of the
\* enrichment has returned, and the write of the empty string and the
\* AddCompletedJob of the final check are steps taken in such states only.
ClosureAfterRunners ==
    /\ [](\A e \in DynamicIds : orch[e].pc \in ClosePcs => AllRunnersEnded(e))
    /\ [][\A e \in DynamicIds :
            (OrchCloseField(e) \/ OrchCloseRead(e) \/ OrchCloseGet(e) \/ OrchCloseUpdate(e))
            => AllRunnersEnded(e) /\ AllRunnersEnded(e)']_vars
\* C31, witness: both job runners were launched and have returned, one of
\* them exhausted, and the final check is about to add that job type.
ClosureAfterRunnersWitness ==
    \E e \in DynamicIds :
        /\ orch[e].pc = "close_update"
        /\ runner[e]["phone"].pc = "done" /\ runner[e]["email"].pc = "done"
        /\ Exhausted(e, JobOrder[orch[e].k])

\* C32: a job type in completedJobs has no provider pointer.
CompletedJobHasNoPointer ==
    \A e \in DynamicIds, j \in Jobs :
        j \in CompletedJobs(e) => Pointer(db[e], j) = NULL

\* C33: a step that puts the status to failed is the orchestrator's step after
\* GetContact or after GetAllProviders, taken before any job runner of the
\* enrichment was started; no step of a job runner does it.
OnlyOrchestratorFails ==
    [][\A e \in DynamicIds :
        (db'[e].status = EnrichmentStatusFailed /\ db[e].status # EnrichmentStatusFailed)
        => /\ OrchGetContact(e) \/ OrchGetProviders(e)
           /\ \A j \in Jobs : runner[e][j].pc = "idle" /\ ~JobRunner(e, j)]_vars
\* C33, witness: the orchestrator has failed the enrichment for want of a
\* provider and no job runner was started.
OnlyOrchestratorFailsWitness ==
    \E e \in DynamicIds :
        /\ db[e].status = EnrichmentStatusFailed
        /\ orch[e].pc = "done" /\ mockData.Providers = {}
        /\ GetContact(mockData, db[e].user_id)
        /\ \A j \in Jobs : runner[e][j].pc = "idle"

\* C34: a failed store read at the top of a job runner's loop ends that runner
\* and changes nothing else; the sibling always has its next step to take;
\* when the run has ended the faulted job type is in completedJobs and its
\* result is present and empty.
FaultStopsOnlyThatRunner ==
    /\ [][\A e \in DynamicIds, j \in Jobs :
            RunnerFault(e, j) =>
                /\ runner'[e][j].pc = "done" /\ db' = db /\ orch' = orch
                /\ \A k \in Jobs \ {j} : runner'[e][k] = runner[e][k]]_vars
    /\ [](\A e \in DynamicIds, j \in Jobs :
            /\ runner[e][j].pc \notin {"idle", "done"} => ENABLED JobRunner(e, j)
            /\ (RunEnded(e) /\ runner[e][j].faulted)
                => /\ j \in CompletedJobs(e)
                   /\ HasResult(db[e], j) /\ ResultValue(db[e], j) = "")

SelectedAt(e, t) ==
    /\ db[e].exists /\ ~db[e].is_static
    /\ db[e].status = EnrichmentStatusPending
    /\ db[e].created_at * TicksPerSecond + TicksPerSecond + PendingToInProgressDelay <= t

\* C36: the scheduler never waits for an orchestrator.  A tick takes every due
\* enrichment into its loop; each iteration sets that enrichment in_progress and
\* starts its orchestrator, touching no other orchestrator or job runner; every
\* enrichment of the loop can be promoted whatever the orchestrators started
\* before are doing; and a tick that is due fires whenever the loop has ended,
\* whatever orchestrators are running.
SchedulerNeverWaits ==
    /\ [][/\ SchedulerTick => sched'.todo = { e \in EnrichmentIds : SelectedAt(e, now) }
          /\ \A e \in EnrichmentIds :
                Promote(e) =>
                    /\ db'[e].status = EnrichmentStatusInProgress
                    /\ orch'[e].pc = "start"
                    /\ \A f \in EnrichmentIds \ {e} : orch'[f] = orch[f] /\ db'[f] = db[f]
                    /\ runner' = runner]_vars
    /\ [](/\ sched.pc = "promoting" =>
                /\ sched.todo # {}
                /\ \A e \in sched.todo : ENABLED Promote(e)
          /\ (sched.pc = "idle" /\ now >= sched.nextTick) => ENABLED SchedulerTick)

\* The second enrichment, due at the later tick only, has just been promoted
\* while the job runner of the first is between two steps of its loop.
SchedulerNeverWaitsWitness ==
    \E e \in DynamicIds, f \in SecondIds :
        /\ now >= PollInterval
        /\ db[f].clock = 0 - TicksPerSecond
        /\ orch[f].pc = "start"
        /\ orch[e].pc = "wait"
        /\ \E j \in Jobs : runner[e][j].pc \notin {"idle", "done"}

\* C37: each enrichment is promoted at most once.  The scheduler promotes an
\* enrichment whose orchestrator and job runners have never been started; an
\* orchestrator or job runner that has been started is never started again;
\* and a job runner is started by its enrichment's orchestrator, for a
\* requested job type, when no job runner of that enrichment has been started.
PromotedAtMostOnce ==
    [][\A e \in EnrichmentIds :
         /\ Promote(e) => /\ orch[e].pc = "idle"
                          /\ \A j \in Jobs : runner[e][j].pc = "idle"
         /\ orch'[e].pc = "start" => orch[e].pc \in {"idle", "start"}
         /\ orch[e].pc # "idle" => orch'[e].pc # "idle"
         /\ \A j \in Jobs :
              /\ runner[e][j].pc # "idle" => runner'[e][j].pc # "idle"
              /\ (runner[e][j].pc = "idle" /\ runner'[e][j].pc # "idle")
                  => /\ orch[e].pc = "spawn" /\ orch'[e].pc = "wait"
                     /\ Contains(db[e].jobs, j)
                     /\ \A k \in Jobs : runner[e][k].pc = "idle"]_vars

\* The second tick has gone by, and the enrichment promoted at the first one,
\* whose orchestrator has ended or is still running, was left alone.
PromotedAtMostOnceWitness ==
    \E e \in DynamicIds :
        /\ sched.pc = "idle"
        /\ sched.nextTick > PollInterval
        /\ orch[e].pc # "idle"
        /\ db[e].status \in {EnrichmentStatusInProgress, EnrichmentStatusCompleted}

\* C38: in the found path the contact update precedes the completion mark.
\* From the step after the contact update on, and so whenever the runner's
\* AddCompletedJob has put the job type in completedJobs, the contact record
\* holds the directory's value for the job type, which is not
\* empty; only a job runner's contact update changes the directory; and the
\* contact record of a job whose runner ended without a find is as created.
ContactUpdatedBeforeCompletion ==
    /\ [][mockData' # mockData
            => \E e \in DynamicIds, j \in Jobs :
                    /\ runner[e][j].pc = "update_contact" /\ runner'[e][j].pc = "add_read"
                    /\ runner[e][j].value = Truth(e, j)]_vars
    /\ [](\A e \in DynamicIds, j \in Jobs :
            /\ ( \/ runner[e][j].pc \in {"add_read", "add_get", "add_update", "clear_provider"}
                 \/ runner[e][j].added # "none" )
               => /\ Truth(e, j) # ""
                  /\ mockData.Contacts[db[e].user_id][j] = Truth(e, j)
            /\ Exhausted(e, j) => mockData.Contacts[db[e].user_id][j] = "")

\* A job type is in completedJobs by its runner's AddCompletedJob, and the
\* contact record holds the value found.
ContactUpdatedBeforeCompletionWitness ==
    \E e \in DynamicIds, j \in Jobs :
        /\ Contains(db[e].completed_jobs, j)
        /\ runner[e][j].added \in {"added", "completed"}
        /\ mockData.Contacts[db[e].user_id][j] = Truth(e, j)
        /\ Truth(e, j) # ""

\* Contact info is supplied and no field of it is populated.
EmptyHint(e) ==
    /\ ~Hint(e).isNil
    /\ \A f \in ScalarFields : Hint(e)[f] = ""
    /\ Hint(e).Skills = <<>> /\ Hint(e).Companies = <<>>

\* C39: once an orchestrator run has its success rate, a run on supplied
\* contact info with no populated field has the boosted rate when the contact
\* has third-party data, and a run whose contact has no third-party data has
\* the base rate, whatever contact info was supplied.
EmptyHintMatches ==
    \A e \in DynamicIds :
        RateDecided(e) =>
            /\ (EmptyHint(e) /\ HasProfile(e)) => orch[e].successRate = BoostedSuccessRate
            /\ ~HasProfile(e) => orch[e].successRate = ProviderSuccessRate

\* A job runner draws at the boosted rate in a run on contact info with no
\* populated field.
EmptyHintMatchesWitness ==
    \E e \in DynamicIds, j \in Jobs :
        /\ RateDecided(e) /\ EmptyHint(e) /\ HasProfile(e)
        /\ runner[e][j].queried # <<>>
        /\ runner[e][j].successRate = BoostedSuccessRate
====
